---- MODULE Spec2Model ----
(***************************************************************************)
(* fsdb: a bucket of typed values stored as one file per key under a       *)
(* directory, with optional one-level sub-buckets ("within" operations)    *)
(* and optional truncation of keys to a maximum file-name length.          *)
(*                                                                         *)
(* Strings are sequences of UTF-8 bytes, as Rust's String is.  A path is   *)
(* the sequence of components pushed onto the bucket's directory, so <<>>  *)
(* is the bucket directory itself.  The file system below the bucket       *)
(* directory is a set of directories and a map from file paths to bytes.   *)
(***************************************************************************)
EXTENDS Integers, Sequences, FiniteSets, TLC

(* ---------------------------- bounds ----------------------------------- *)

\* the properties quantify over every key of at most this many bytes
MaxKeyLen == 3
\* the operations are called with the first MaxKeys keys of KeyList
MaxKeys == 4
\* the within operations are called with the first MaxWithinKeys of them
MaxWithinKeys == 3
\* at most this many value files exist at once
MaxFiles == 2
\* set_max_file_name is called with 0..MaxFileName
MaxFileName == 2

(* ---------------------------- strings ---------------------------------- *)

\* "a" and the two-byte character U+00E9
CharA == <<97>>
CharE == <<195, 169>>
Chars == {CharA, CharE}

\* the strings over Chars of at most n bytes
RECURSIVE Utf8Strings(_)
Utf8Strings(n) ==
    IF n = 0 THEN {<<>>}
    ELSE LET shorter == Utf8Strings(n - 1)
         IN  shorter \cup {t \in {s \o c : s \in shorter, c \in Chars} : Len(t) <= n}

AllKeys == Utf8Strings(MaxKeyLen)

\* the keys the operations are called with: "", "a", "aa", "\u00E9a", ...
KeyList ==
    << <<>>, CharA, CharA \o CharA, CharE \o CharA, CharE, CharA \o CharE,
       CharA \o CharA \o CharA, CharE \o CharE >>

Keys == {KeyList[i] : i \in 1..MaxKeys}
WithinKeys == {KeyList[i] : i \in 1..MaxWithinKeys}

\* the sub-bucket names the within operations are called with: non-empty
\* single directory names ("a" is also a key)
Subs == {CharA}

\* the n field of a Thing
Values == {1, 200}

\* u8::is_utf8_char_boundary: (b as i8) >= -0x40
is_utf8_char_boundary(b) == b < 128 \/ b >= 192

\* str::is_char_boundary
is_char_boundary(s, index) ==
    IF index = 0 THEN TRUE
    ELSE IF index >= Len(s) THEN index = Len(s)
    ELSE is_utf8_char_boundary(s[index + 1])

\* String::truncate: new_len counts bytes; panics off a char boundary
truncate(s, new_len) ==
    IF new_len <= Len(s)
    THEN IF is_char_boundary(s, new_len)
         THEN [panic |-> FALSE, s |-> SubSeq(s, 1, new_len)]
         ELSE [panic |-> TRUE, s |-> <<>>]
    ELSE [panic |-> FALSE, s |-> s]

\* Option<usize>
None == <<>>
Some(x) == <<x>>

\* maxify that never truncates
maxify_whole(max, name) == [panic |-> FALSE, s |-> name]

maxify(max, name) ==
    IF max # None THEN truncate(name, max[1])
    ELSE [panic |-> FALSE, s |-> name]

(* ----------------------------- codec ----------------------------------- *)

\* encode that writes every n as a one-byte fixint
encode_fixint(n) == <<145, n>>

\* rmp_serde: Thing { n: u8 } is a one-element array holding an unsigned int
encode(n) == IF n < 128 THEN <<145, n>> ELSE <<145, 204, n>>

decode(bytes) ==
    IF Len(bytes) >= 2 /\ bytes[1] = 145 /\ bytes[2] < 128
    THEN [ok |-> TRUE, v |-> bytes[2]]
    ELSE IF Len(bytes) >= 3 /\ bytes[1] = 145 /\ bytes[2] = 204
    THEN [ok |-> TRUE, v |-> bytes[3]]
    ELSE [ok |-> FALSE, v |-> 0]

(* ----------------------------- results --------------------------------- *)

Res(kind, io, val, names, flag) ==
    [kind |-> kind, io |-> io, val |-> val, names |-> names, flag |-> flag]

Ok == Res("Ok", "", 0, <<>>, FALSE)
OkVal(v) == Res("Ok", "", v, <<>>, FALSE)
OkNames(ns) == Res("Ok", "", 0, ns, FALSE)
Bool(b) == Res("Ok", "", 0, <<>>, b)
Io(e) == Res("Io", e, 0, <<>>, FALSE)
DecodeErr == Res("Decode", "", 0, <<>>, FALSE)
Panic == Res("Panic", "", 0, <<>>, FALSE)

(* --------------------------- file system ------------------------------- *)

\* the path separator
Sep == 47

RECURSIVE components(_)
\* the components of a relative path string: the pieces between separators
components(c) ==
    IF \A i \in 1..Len(c) : c[i] # Sep THEN <<c>>
    ELSE LET i == CHOOSE j \in 1..Len(c) :
                      c[j] = Sep /\ \A k \in 1..(j - 1) : c[k] # Sep
         IN  <<SubSeq(c, 1, i - 1)>> \o components(SubSeq(c, i + 1, Len(c)))

\* PathBuf::push of a relative path string: a name without a separator is
\* one component, a string with separators adds one component per piece
push(path, c) == path \o components(c)

NonEmpty(c) == c # <<>>

\* an empty component only adds a separator: it names the same node
Norm(path) == SelectSeq(path, NonEmpty)
TrailingSep(path) == Len(path) > 0 /\ path[Len(path)] = <<>>

Front(p) == SubSeq(p, 1, Len(p) - 1)

IsDir(f, path) == Norm(path) \in f.dirs
IsFile(f, path) == Norm(path) \in DOMAIN f.files /\ ~TrailingSep(path)

\* Path::exists
path_exists(f, path) == IsDir(f, path) \/ IsFile(f, path)

\* the error of a lookup that finds nothing to open
StatErr(f, path) ==
    LET p == Norm(path)
    IN  IF \E i \in 1..Len(p) : SubSeq(p, 1, i) \in DOMAIN f.files
        THEN "NotADirectory" ELSE "NotFound"

WithFile(f, p, data) ==
    [f EXCEPT !.files = [q \in DOMAIN f.files \cup {p} |->
                            IF q = p THEN data ELSE f.files[q]]]

WithoutFile(f, p) ==
    [f EXCEPT !.files = [q \in DOMAIN f.files \ {p} |-> f.files[q]]]

IsPrefix(p, q) == Len(p) <= Len(q) /\ SubSeq(q, 1, Len(p)) = p

\* fs::create_dir
create_dir(f, path) ==
    LET p == Norm(path)
    IN  IF p \in f.dirs \/ p \in DOMAIN f.files
        THEN [fs |-> f, res |-> Io("AlreadyExists")]
        ELSE IF p # <<>> /\ Front(p) \notin f.dirs
        THEN [fs |-> f, res |-> Io(StatErr(f, Front(p)))]
        ELSE [fs |-> [f EXCEPT !.dirs = @ \cup {p}], res |-> Ok]

\* fs::File::create: creates the file or truncates it to length 0
file_create(f, path) ==
    LET p == Norm(path)
    IN  IF IsDir(f, path) \/ TrailingSep(path) \/ p = <<>>
        THEN [fs |-> f, res |-> Io("IsADirectory")]
        ELSE IF Front(p) \notin f.dirs
        THEN [fs |-> f, res |-> Io(StatErr(f, Front(p)))]
        ELSE [fs |-> WithFile(f, p, <<>>), res |-> Ok]

(* ---------------------- internal implementations ---------------------- *)

fs_put(f, path, value) ==
    LET c == file_create(f, path)
    IN  IF c.res.kind # "Ok" THEN c
        ELSE [fs |-> WithFile(c.fs, Norm(path), encode(value)), res |-> Ok]

\* File::open succeeds on a directory (Unix); the read then fails inside
\* the decoder, which reports it as a decode error
fs_get(f, path) ==
    IF IsFile(f, path)
    THEN LET d == decode(f.files[Norm(path)])
         IN  IF d.ok THEN OkVal(d.v) ELSE DecodeErr
    ELSE IF IsDir(f, path) THEN DecodeErr
    ELSE Io(StatErr(f, path))

\* fs_remove that reports success without unlinking
fs_remove_keep(f, path) ==
    IF IsFile(f, path) THEN [fs |-> f, res |-> Ok]
    ELSE IF IsDir(f, path) THEN [fs |-> f, res |-> Io("IsADirectory")]
    ELSE [fs |-> f, res |-> Io(StatErr(f, path))]

fs_remove(f, path) ==
    IF IsFile(f, path) THEN [fs |-> WithoutFile(f, Norm(path)), res |-> Ok]
    ELSE IF IsDir(f, path) THEN [fs |-> f, res |-> Io("IsADirectory")]
    ELSE [fs |-> f, res |-> Io(StatErr(f, path))]

\* Entries that walks the whole tree instead of one directory
Entries_anywhere(f, p) ==
    {q[Len(q)] : q \in {r \in f.dirs \cup DOMAIN f.files : r # <<>>}}

\* the names of the entries directly inside a directory
Entries(f, p) ==
    {q[Len(q)] : q \in {r \in f.dirs \cup DOMAIN f.files :
                            Len(r) = Len(p) + 1 /\ IsPrefix(p, r)}}

\* every order in which read_dir may enumerate a set of names
Orders(S) ==
    {o \in [1..Cardinality(S) -> S] : \A i, j \in DOMAIN o : o[i] = o[j] => i = j}

\* the possible results of fs_list: one per enumeration order
fs_list(f, path) ==
    IF IsDir(f, path) THEN {OkNames(o) : o \in Orders(Entries(f, Norm(path)))}
    ELSE IF IsFile(f, path) THEN {Io("NotADirectory")}
    ELSE {Io(StatErr(f, path))}

\* fs::remove_dir_all
fs_clear(f, path) ==
    LET p == Norm(path)
    IN  IF IsDir(f, path)
        THEN [fs |-> [dirs |-> {d \in f.dirs : ~IsPrefix(p, d)},
                      files |-> [q \in {r \in DOMAIN f.files : ~IsPrefix(p, r)}
                                    |-> f.files[q]]],
              res |-> Ok]
        ELSE IF IsFile(f, path) THEN [fs |-> f, res |-> Io("NotADirectory")]
        ELSE [fs |-> f, res |-> Io(StatErr(f, path))]

(* ------------------------- bucket operations --------------------------- *)

\* self.dir, relative to itself
dir == <<>>

Panicked(f) == [fs |-> f, res |-> Panic]

exists(f, max, key) ==
    LET m == maxify(max, key)
    IN  IF m.panic THEN Panic ELSE Bool(path_exists(f, push(dir, m.s)))

put(f, max, key, value) ==
    LET m == maxify(max, key)
    IN  IF m.panic THEN Panicked(f) ELSE fs_put(f, push(dir, m.s), value)

get(f, max, key) ==
    LET m == maxify(max, key)
    IN  IF m.panic THEN Panic ELSE fs_get(f, push(dir, m.s))

remove(f, max, key) ==
    LET m == maxify(max, key)
    IN  IF m.panic THEN Panicked(f) ELSE fs_remove(f, push(dir, m.s))

list(f) == fs_list(f, dir)

clear(f) == fs_clear(f, dir)

exists_within(f, max, key, sub) ==
    LET m == maxify(max, key)
    IN  IF m.panic THEN Panic
        ELSE Bool(path_exists(f, push(push(dir, sub), m.s)))

\* put_within that forgets the sub component when writing
put_within_flat(f, max, key, value, sub) ==
    LET path == push(dir, sub)
        c == IF ~path_exists(f, path) THEN create_dir(f, path)
             ELSE [fs |-> f, res |-> Ok]
        m == maxify(max, key)
    IN  IF c.res.kind # "Ok" THEN c
        ELSE IF m.panic THEN Panicked(c.fs)
        ELSE fs_put(c.fs, push(dir, m.s), value)

put_within(f, max, key, value, sub) ==
    LET path == push(dir, sub)
        c == IF ~path_exists(f, path) THEN create_dir(f, path)
             ELSE [fs |-> f, res |-> Ok]
        m == maxify(max, key)
    IN  IF c.res.kind # "Ok" THEN c
        ELSE IF m.panic THEN Panicked(c.fs)
        ELSE fs_put(c.fs, push(path, m.s), value)

get_within(f, max, key, sub) ==
    LET m == maxify(max, key)
    IN  IF m.panic THEN Panic ELSE fs_get(f, push(push(dir, sub), m.s))

remove_within(f, max, key, sub) ==
    LET m == maxify(max, key)
    IN  IF m.panic THEN Panicked(f)
        ELSE fs_remove(f, push(push(dir, sub), m.s))

list_within(f, sub) == fs_list(f, push(dir, sub))

clear_within(f, sub) == fs_clear(f, push(dir, sub))

\* Fsdb::bucket: the bucket directory after the call (the store's directory
\* exists, so create_dir of the missing bucket directory succeeds)
bucket(f) ==
    IF ~path_exists(f, dir) THEN create_dir(f, dir) ELSE [fs |-> f, res |-> Ok]

(* --------------------------- constructors ------------------------------ *)

\* the path itself and every ancestor of it
Ancestors(p) == {SubSeq(p, 1, i) : i \in 0..Len(p)}

\* fs::create_dir_all
create_dir_all(f, path) ==
    LET p == Norm(path)
    IN  IF \E q \in Ancestors(p) : q \in DOMAIN f.files
        THEN [fs |-> f, res |-> Io(IF p \in DOMAIN f.files
                                   THEN "AlreadyExists" ELSE "NotADirectory")]
        ELSE [fs |-> [f EXCEPT !.dirs = @ \cup Ancestors(p)], res |-> Ok]

\* Fsdb::new on a path given relative to the bucket directory
new(f, path) ==
    IF ~path_exists(f, path) THEN create_dir_all(f, path)
    ELSE [fs |-> f, res |-> Ok]

\* Fsdb::bucket of a store whose directory is `store`
bucket_in(f, store, p) ==
    LET d == push(store, p)
    IN  IF ~path_exists(f, d) THEN create_dir(f, d)
        ELSE [fs |-> f, res |-> Ok]

(* ------------------------------ state ---------------------------------- *)

VARIABLES
    fs,             \* directories and files below the bucket directory
    max_file_name,  \* Bucket::max_file_name
    last,           \* the last call: operation, arguments and result
    procs           \* the calls in progress, one per thread

vars == <<fs, max_file_name, last, procs>>

Call(op, key, sub, value, res) ==
    [op |-> op, key |-> key, sub |-> sub, value |-> value, res |-> res]

\* the threads that share the bucket directory
Procs == {1, 2}

\* a thread that is not inside a call
Idle ==
    [pc |-> "idle", op |-> "", key |-> <<>>, sub |-> <<>>, path |-> <<>>,
     bytes |-> <<>>, data |-> <<>>, off |-> 0, res |-> Ok, step |-> "",
     old |-> [dirs |-> {}, files |-> <<>>]]

\* Fsdb::new followed by Fsdb::bucket on an empty directory
Init ==
    /\ fs = [dirs |-> {dir}, files |-> <<>>]
    /\ max_file_name = None
    /\ last = Call("bucket", <<>>, <<>>, 0, Ok)
    /\ procs = [p \in Procs |-> Idle]

Bucket ==
    /\ fs' = bucket(fs).fs
    /\ max_file_name' = None
    /\ last' = Call("bucket", <<>>, <<>>, 0, bucket(fs).res)
    /\ UNCHANGED procs

SetMaxFileName ==
    \E x \in 0..MaxFileName :
        /\ max_file_name' = Some(x)
        /\ last' = Call("set_max_file_name", <<>>, <<>>, x, Ok)
        /\ UNCHANGED <<fs, procs>>

Exists ==
    \E key \in Keys :
        /\ last' = Call("exists", key, <<>>, 0, exists(fs, max_file_name, key))
        /\ UNCHANGED <<fs, max_file_name, procs>>

Put ==
    \E key \in Keys, value \in Values :
        LET r == put(fs, max_file_name, key, value)
        IN  /\ Cardinality(DOMAIN r.fs.files) <= MaxFiles
            /\ fs' = r.fs
            /\ last' = Call("put", key, <<>>, value, r.res)
            /\ UNCHANGED <<max_file_name, procs>>

Get ==
    \E key \in Keys :
        /\ last' = Call("get", key, <<>>, 0, get(fs, max_file_name, key))
        /\ UNCHANGED <<fs, max_file_name, procs>>

Remove ==
    \E key \in Keys :
        LET r == remove(fs, max_file_name, key)
        IN  /\ fs' = r.fs
            /\ last' = Call("remove", key, <<>>, 0, r.res)
            /\ UNCHANGED <<max_file_name, procs>>

List ==
    \E res \in list(fs) :
        /\ last' = Call("list", <<>>, <<>>, 0, res)
        /\ UNCHANGED <<fs, max_file_name, procs>>

Clear ==
    /\ fs' = clear(fs).fs
    /\ last' = Call("clear", <<>>, <<>>, 0, clear(fs).res)
    /\ UNCHANGED <<max_file_name, procs>>

ExistsWithin ==
    \E key \in WithinKeys, sub \in Subs :
        /\ last' = Call("exists_within", key, sub, 0,
                        exists_within(fs, max_file_name, key, sub))
        /\ UNCHANGED <<fs, max_file_name, procs>>

PutWithin ==
    \E key \in WithinKeys, value \in Values, sub \in Subs :
        LET r == put_within(fs, max_file_name, key, value, sub)
        IN  /\ Cardinality(DOMAIN r.fs.files) <= MaxFiles
            /\ fs' = r.fs
            /\ last' = Call("put_within", key, sub, value, r.res)
            /\ UNCHANGED <<max_file_name, procs>>

GetWithin ==
    \E key \in WithinKeys, sub \in Subs :
        /\ last' = Call("get_within", key, sub, 0,
                        get_within(fs, max_file_name, key, sub))
        /\ UNCHANGED <<fs, max_file_name, procs>>

RemoveWithin ==
    \E key \in WithinKeys, sub \in Subs :
        LET r == remove_within(fs, max_file_name, key, sub)
        IN  /\ fs' = r.fs
            /\ last' = Call("remove_within", key, sub, 0, r.res)
            /\ UNCHANGED <<max_file_name, procs>>

ListWithin ==
    \E sub \in Subs : \E res \in list_within(fs, sub) :
        /\ last' = Call("list_within", <<>>, sub, 0, res)
        /\ UNCHANGED <<fs, max_file_name, procs>>

ClearWithin ==
    \E sub \in Subs :
        /\ fs' = clear_within(fs, sub).fs
        /\ last' = Call("clear_within", <<>>, sub, 0, clear_within(fs, sub).res)
        /\ UNCHANGED <<max_file_name, procs>>

Next ==
    \/ Bucket
    \/ SetMaxFileName
    \/ Exists
    \/ Put
    \/ Get
    \/ Remove
    \/ List
    \/ Clear
    \/ ExistsWithin
    \/ PutWithin
    \/ GetWithin
    \/ RemoveWithin
    \/ ListWithin
    \/ ClearWithin

Spec == Init /\ [][Next]_vars

TypeOK ==
    /\ \A p \in fs.dirs : p = <<>> \/ Front(p) \in fs.dirs
    /\ \A p \in DOMAIN fs.files : Front(p) \in fs.dirs /\ p \notin fs.dirs
    /\ max_file_name \in {None} \cup {Some(x) : x \in 0..MaxFileName}
    /\ \A p \in Procs :
           procs[p].pc \in {"idle", "check", "create_dir", "create", "write", "done"}

(* ------------------------- calls step by step ------------------------- *)

\* a value type with two fields, struct Pair { a: u8, b: u8 }
Pairs == {<<1, 1>>, <<2, 2>>}

\* rmp_serde: a two-element array of positive fixints
encode_pair(v) == <<146, v[1], v[2]>>

decode_pair(bytes) ==
    IF Len(bytes) >= 3 /\ bytes[1] = 146 /\ bytes[2] < 128 /\ bytes[3] < 128
    THEN [ok |-> TRUE, v |-> <<bytes[2], bytes[3]>>]
    ELSE [ok |-> FALSE, v |-> <<>>]

\* fs_get of a Bucket<Pair>
fs_get_pair(f, path) ==
    IF IsFile(f, path)
    THEN LET d == decode_pair(f.files[Norm(path)])
         IN  IF d.ok THEN OkVal(d.v) ELSE DecodeErr
    ELSE IF IsDir(f, path) THEN DecodeErr
    ELSE Io(StatErr(f, path))

\* a write error of encode::write
EncodeErr == Res("Encode", "", 0, <<>>, FALSE)

\* write(2) at a file offset: bytes between the end of the file and the
\* offset read as zero
write_at(content, off, chunk) ==
    LET n == IF Len(content) > off + Len(chunk)
             THEN Len(content) ELSE off + Len(chunk)
    IN  [i \in 1..n |->
            IF i > off /\ i <= off + Len(chunk) THEN chunk[i - off]
            ELSE IF i <= Len(content) THEN content[i] ELSE 0]

\* the keys and names used by the calls in progress
StepKey == CharA \o CharA
StepWithinKeys == {CharA, CharA \o CharA}

Returned(p, res, step) ==
    [procs EXCEPT ![p].pc = "done", ![p].res = res, ![p].step = step]

\* put: the path is built, File::create comes next
CallPut(p, key, bytes) ==
    /\ procs[p].pc = "idle"
    /\ ~maxify(max_file_name, key).panic
    /\ procs' = [procs EXCEPT ![p] =
                    [Idle EXCEPT !.pc = "create", !.op = "put", !.key = key,
                                 !.path = push(dir, maxify(max_file_name, key).s),
                                 !.bytes = bytes, !.data = bytes, !.old = fs]]
    /\ UNCHANGED <<fs, max_file_name, last>>

\* put_within: the sub path is built, the existence check comes next
CallPutWithin(p, key, bytes, sub) ==
    /\ procs[p].pc = "idle"
    /\ ~maxify(max_file_name, key).panic
    /\ procs' = [procs EXCEPT ![p] =
                    [Idle EXCEPT !.pc = "check", !.op = "put_within",
                                 !.key = key, !.sub = sub,
                                 !.path = push(dir, sub),
                                 !.bytes = bytes, !.data = bytes, !.old = fs]]
    /\ UNCHANGED <<fs, max_file_name, last>>

\* Fsdb::bucket of the store at `dir`: the existence check comes next
CallBucket(p, name) ==
    /\ procs[p].pc = "idle"
    /\ procs' = [procs EXCEPT ![p] =
                    [Idle EXCEPT !.pc = "check", !.op = "bucket", !.sub = name,
                                 !.path = push(dir, name), !.old = fs]]
    /\ UNCHANGED <<fs, max_file_name, last>>

\* what follows the check and the directory creation
AfterDir(p) ==
    IF procs[p].op = "bucket" THEN Returned(p, Ok, "")
    ELSE [procs EXCEPT ![p].pc = "create",
                       ![p].path = push(procs[p].path,
                                        maxify(max_file_name, procs[p].key).s)]

\* if !Path::new(&path).exists()
Check(p) ==
    /\ procs[p].pc = "check"
    /\ procs' = IF path_exists(fs, procs[p].path) THEN AfterDir(p)
                ELSE [procs EXCEPT ![p].pc = "create_dir"]
    /\ UNCHANGED <<fs, max_file_name, last>>

\* fs::create_dir(path)?
CreateDir(p) ==
    /\ procs[p].pc = "create_dir"
    /\ LET r == create_dir(fs, procs[p].path)
       IN  /\ fs' = r.fs
           /\ procs' = IF r.res.kind = "Ok" THEN AfterDir(p)
                       ELSE Returned(p, r.res, "create_dir")
    /\ UNCHANGED <<max_file_name, last>>

\* fs::File::create(path)?
FileCreate(p) ==
    /\ procs[p].pc = "create"
    /\ LET r == file_create(fs, procs[p].path)
       IN  /\ fs' = r.fs
           /\ procs' = IF r.res.kind = "Ok"
                       THEN [procs EXCEPT ![p].pc = "write", ![p].off = 0]
                       ELSE Returned(p, r.res, "create")
    /\ UNCHANGED <<max_file_name, last>>

\* one write of encode::write: the serializer hands the file one byte at a
\* time, written at the offset of this thread's file handle
Write(p) ==
    /\ procs[p].pc = "write"
    /\ procs[p].data # <<>>
    /\ LET q == Norm(procs[p].path)
           rest == Tail(procs[p].data)
       IN  /\ fs' = WithFile(fs, q, write_at(fs.files[q], procs[p].off,
                                             <<Head(procs[p].data)>>))
           /\ procs' = IF rest = <<>>
                       THEN [procs EXCEPT ![p].pc = "done", ![p].res = Ok,
                                          ![p].data = rest, ![p].off = @ + 1]
                       ELSE [procs EXCEPT ![p].data = rest, ![p].off = @ + 1]
    /\ UNCHANGED <<max_file_name, last>>

\* the call returns to its caller
Return(p) ==
    /\ procs[p].pc = "done"
    /\ procs' = [procs EXCEPT ![p] = Idle]
    /\ UNCHANGED <<fs, max_file_name, last>>

\* the operating system refuses the directory creation
FailCreateDir(p) ==
    /\ procs[p].pc = "create_dir"
    /\ procs' = Returned(p, Io("PermissionDenied"), "create_dir")
    /\ UNCHANGED <<fs, max_file_name, last>>

\* the operating system refuses to create or truncate the file
FailFileCreate(p) ==
    /\ procs[p].pc = "create"
    /\ procs' = Returned(p, Io("PermissionDenied"), "create")
    /\ UNCHANGED <<fs, max_file_name, last>>

\* a failed write that undoes the call: the state before the call is restored
FailWrite_rollback(p) ==
    /\ procs[p].pc = "write"
    /\ procs' = Returned(p, EncodeErr, "write")
    /\ fs' = procs[p].old
    /\ UNCHANGED <<max_file_name, last>>

\* the operating system refuses a write (disk full, I/O error)
FailWrite(p) ==
    /\ procs[p].pc = "write"
    /\ procs' = Returned(p, EncodeErr, "write")
    /\ UNCHANGED <<fs, max_file_name, last>>

(* two threads, no failure of the operating system *)

RacePut ==
    \E p \in Procs, v \in Pairs : CallPut(p, StepKey, encode_pair(v))

RacePutWithin ==
    \E p \in Procs, key \in StepWithinKeys, v \in Pairs, sub \in Subs :
        CallPutWithin(p, key, encode_pair(v), sub)

RaceBucket == \E p \in Procs, name \in Subs : CallBucket(p, name)

RaceCheck == \E p \in Procs : Check(p)

RaceCreateDir == \E p \in Procs : CreateDir(p)

RaceFileCreate == \E p \in Procs : FileCreate(p)

RaceWrite == \E p \in Procs : Write(p)

NextRace ==
    \/ RacePut
    \/ RacePutWithin
    \/ RaceBucket
    \/ RaceCheck
    \/ RaceCreateDir
    \/ RaceFileCreate
    \/ RaceWrite

SpecRace == Init /\ [][NextRace]_vars

(* one thread, with failures of the operating system *)

FaultPut == \E v \in Values : CallPut(1, StepKey, encode(v))

FaultPutWithin ==
    \E key \in StepWithinKeys, v \in Values, sub \in Subs :
        CallPutWithin(1, key, encode(v), sub)

FaultCheck == Check(1)

FaultCreateDir == CreateDir(1)

FaultFileCreate == FileCreate(1)

FaultWrite == Write(1)

FaultFailCreateDir == FailCreateDir(1)

FaultFailFileCreate == FailFileCreate(1)

FaultFailWrite == FailWrite(1)

FaultReturn == Return(1)

NextFault ==
    \/ FaultPut
    \/ FaultPutWithin
    \/ FaultCheck
    \/ FaultCreateDir
    \/ FaultFileCreate
    \/ FaultWrite
    \/ FaultFailCreateDir
    \/ FaultFailFileCreate
    \/ FaultFailWrite
    \/ FaultReturn

SpecFault == Init /\ [][NextFault]_vars

(* ------------------------------ claims --------------------------------- *)

Range(q) == {q[i] : i \in DOMAIN q}
NoDup(q) == \A i, j \in DOMAIN q : q[i] = q[j] => i = j

\* the number of characters of s: its bytes that are not continuation bytes
CharCount(s) == Cardinality({i \in 1..Len(s) : is_utf8_char_boundary(s[i])})

\* the first n characters of s (all of s when it has at most n characters)
FirstChars(s, n) ==
    IF CharCount(s) <= n THEN s
    ELSE LET starts == {i \in 1..Len(s) : is_utf8_char_boundary(s[i])}
             cut == CHOOSE i \in starts : Cardinality({j \in starts : j < i}) = n
         IN  SubSeq(s, 1, cut - 1)

LastOk(op) == last.op = op /\ last.res.kind = "Ok"

\* the names of the value files directly inside directory p
FileNames(p) == {q[Len(q)] : q \in {r \in DOMAIN fs.files : Front(r) = p}}

\* C1: a value read back right after a successful put (or put_within) under
\* the same key equals the value that was put.
C1_RoundTrip ==
    /\ LastOk("put") =>
           get(fs, max_file_name, last.key) = OkVal(last.value)
    /\ LastOk("put_within") =>
           get_within(fs, max_file_name, last.key, last.sub) = OkVal(last.value)

C1_Witness ==
    /\ LastOk("put")
    /\ last.value = 200
    /\ max_file_name # None
    /\ Len(last.key) > max_file_name[1]

\* C2: exists(k) is true right after a successful put(k, v) and false right
\* after a successful remove(k).
C2_ExistenceConsistency ==
    /\ LastOk("put") => exists(fs, max_file_name, last.key) = Bool(TRUE)
    /\ LastOk("remove") => exists(fs, max_file_name, last.key) = Bool(FALSE)

C2_Witness == LastOk("remove") /\ DOMAIN fs.files # {}

\* C3: with a maximum n set, a successful put(k, v) stores the value in a
\* file named by the first n characters of k, list() returns that name, and
\* get(k) returns v.
C3_Truncation ==
    (LastOk("put") /\ max_file_name # None) =>
        LET name == FirstChars(last.key, max_file_name[1])
        IN  /\ <<name>> \in DOMAIN fs.files
            /\ fs.files[<<name>>] = encode(last.value)
            /\ \A r \in list(fs) : r.kind = "Ok" /\ name \in Range(r.names)
            /\ get(fs, max_file_name, last.key) = OkVal(last.value)

\* C4: list() returns the names of the value files of the bucket, each once
\* and nothing else, when only keys were put into the bucket; list_within
\* does the same for the keys put into the sub-bucket.
C4_ListingComplete ==
    /\ (LastOk("list") /\ fs.dirs \subseteq {dir}) =>
           /\ NoDup(last.res.names)
           /\ Range(last.res.names) = FileNames(dir)
    /\ LastOk("list_within") =>
           /\ NoDup(last.res.names)
           /\ Range(last.res.names) = FileNames(<<last.sub>>)

C4_Witness ==
    /\ LastOk("list")
    /\ fs.dirs \subseteq {dir}
    /\ Len(last.res.names) = 2

C6_ClearSemantics ==
    /\ LastOk("clear") => fs = [dirs |-> {}, files |-> <<>>]
    /\ dir \notin fs.dirs =>
           /\ \A r \in list(fs) : r.kind = "Io"
           /\ \A key \in AllKeys :
                  /\ exists(fs, max_file_name, key) = Bool(FALSE)
                  /\ \A sub \in Subs :
                         exists_within(fs, max_file_name, key, sub) = Bool(FALSE)
                  /\ get(fs, max_file_name, key).kind = "Io"
                  /\ \A value \in Values :
                         put(fs, max_file_name, key, value).res.kind = "Io"
                  /\ remove(fs, max_file_name, key).res.kind = "Io"

\* C7: while bucket_dir/sub does not exist, get_within, list_within and
\* remove_within fail with a not-found I/O error, exists_within returns false,
\* clear_within fails with an I/O error, and none of them changes the stored
\* state.
C7_MissingSub ==
    \A sub \in Subs :
        ~path_exists(fs, push(dir, sub)) =>
            /\ \A r \in list_within(fs, sub) : r = Io("NotFound")
            /\ clear_within(fs, sub).res.kind = "Io"
            /\ clear_within(fs, sub).fs = fs
            /\ \A key \in AllKeys :
                   /\ get_within(fs, max_file_name, key, sub) = Io("NotFound")
                   /\ remove_within(fs, max_file_name, key, sub).res = Io("NotFound")
                   /\ remove_within(fs, max_file_name, key, sub).fs = fs
                   /\ exists_within(fs, max_file_name, key, sub) = Bool(FALSE)

\* C8: exists(key) returns, and returns true exactly when a value file is
\* stored at bucket_dir/maxify(key); exists_within likewise below
\* bucket_dir/sub.
C8_ExistsIffFile ==
    \A key \in AllKeys :
        /\ exists(fs, max_file_name, key)
               = Bool(\E p \in DOMAIN fs.files :
                          ~maxify(max_file_name, key).panic
                          /\ p = <<maxify(max_file_name, key).s>>)
        /\ \A sub \in Subs :
               exists_within(fs, max_file_name, key, sub)
                   = Bool(\E p \in DOMAIN fs.files :
                              ~maxify(max_file_name, key).panic
                              /\ p = <<sub, maxify(max_file_name, key).s>>)

C10_MaxifyByChars ==
    \A key \in AllKeys :
        LET m == maxify(max_file_name, key)
        IN  /\ ~m.panic
            /\ m.s = IF max_file_name = None THEN key
                     ELSE FirstChars(key, max_file_name[1])

\* C11: get(k) and remove(k) on a key with no stored file fail with an I/O
\* error, a failed remove changes nothing, and a successful remove(k) deletes
\* exactly the file at bucket_dir/maxify(k) (k any non-empty key, the
\* maximum not 0, so that the stored name is not empty).
C11_AbsentKeyFails ==
    max_file_name # Some(0) =>
    \A key \in AllKeys \ {<<>>} :
        LET m == maxify(max_file_name, key)
            stored == ~m.panic /\ <<m.s>> \in DOMAIN fs.files
            rm == remove(fs, max_file_name, key)
        IN  /\ ~stored =>
                   /\ get(fs, max_file_name, key).kind = "Io"
                   /\ rm.res.kind = "Io"
            /\ rm.res.kind # "Ok" => rm.fs = fs
            /\ rm.res.kind = "Ok" =>
                   /\ stored
                   /\ rm.fs = WithoutFile(fs, <<m.s>>)

\* The state half of C14: under a maximum n, get / exists / remove of a key
\* stored under a full name longer than n characters act on the name made of
\* its first n characters, while list() still returns the full name.
C14_ResolveToPrefix ==
    max_file_name # None =>
    \A key \in AllKeys :
        LET n == max_file_name[1]
            short == push(dir, FirstChars(key, n))
        IN  (<<key>> \in DOMAIN fs.files /\ CharCount(key) > n) =>
                /\ \A r \in list(fs) : r.kind = "Ok" /\ key \in Range(r.names)
                /\ short # <<key>>
                /\ get(fs, max_file_name, key) = fs_get(fs, short)
                /\ exists(fs, max_file_name, key) = Bool(path_exists(fs, short))
                /\ remove(fs, max_file_name, key) = fs_remove(fs, short)

\* C14: set_max_file_name changes only the handle's setting and no file or
\* directory; a value stored under k before a maximum n shorter than k was
\* set stays on disk under its full name (list() still returns k), and
\* get(k), exists(k), remove(k) resolve to the first n characters of k and
\* no longer reach it.
C14_SetMaxOnlySetting ==
    [][ /\ last'.op = "set_max_file_name" => fs' = fs
        /\ C14_ResolveToPrefix' ]_vars

\* C18 as stated: after a successful put_within(k, v, sub), list() contains
\* the sub-namespace name and contains k only if k was also put at the top
\* level; list_within(sub) returns the names stored in sub and nothing else.
C18_ListDirectNoKey ==
    LastOk("put_within") =>
        /\ \A r \in list(fs) :
               /\ r.kind = "Ok"
               /\ last.sub \in Range(r.names)
               /\ FileNames(dir) \subseteq Range(r.names)
               /\ last.key \in Range(r.names) => <<last.key>> \in DOMAIN fs.files
        /\ \A r \in list_within(fs, last.sub) :
               /\ r.kind = "Ok"
               /\ Range(r.names) = FileNames(push(dir, last.sub))

\* C18 (amended): as above, but list() may also contain k when k is the name
\* of a sub-namespace directory of the bucket (as after put_within(k, v, k)).
C18_ListDirect ==
    LastOk("put_within") =>
        /\ \A r \in list(fs) :
               /\ r.kind = "Ok"
               /\ last.sub \in Range(r.names)
               /\ FileNames(dir) \subseteq Range(r.names)
               /\ last.key \in Range(r.names) =>
                      \/ <<last.key>> \in DOMAIN fs.files
                      \/ <<last.key>> \in fs.dirs
        /\ \A r \in list_within(fs, last.sub) :
               /\ r.kind = "Ok"
               /\ Range(r.names) = FileNames(push(dir, last.sub))

\* put_within(k, v, sub) with k # sub has succeeded next to a top-level key
\* that is not stored in sub, and sub holds a name not stored at top level.
C18_Witness ==
    /\ LastOk("put_within")
    /\ last.key # last.sub
    /\ FileNames(dir) \ FileNames(push(dir, last.sub)) # {}
    /\ FileNames(push(dir, last.sub)) \ FileNames(dir) # {}

\* C19: a successful clear_within(sub) removes exactly bucket_dir/sub and
\* everything in it and leaves the rest unchanged; a later put_within(k, v,
\* sub) succeeds and recreates sub holding only k (k any non-empty key, the
\* maximum not 0, so that the stored name is not empty); after a successful
\* clear(), put_within fails with an I/O error and recreates nothing.
C19_ClearWithinExact ==
    [][ /\ (last'.op = "clear_within" /\ last'.res.kind = "Ok") =>
               LET sd == push(dir, last'.sub)
               IN  /\ fs'.dirs = {d \in fs.dirs : ~IsPrefix(sd, d)}
                   /\ dir \in fs'.dirs
                   /\ DOMAIN fs'.files = {p \in DOMAIN fs.files : ~IsPrefix(sd, p)}
                   /\ \A p \in DOMAIN fs'.files : fs'.files[p] = fs.files[p]
                   /\ max_file_name' # Some(0) =>
                          \A key \in AllKeys \ {<<>>}, value \in Values :
                              LET r == put_within(fs', max_file_name', key, value, last'.sub)
                              IN  /\ r.res.kind = "Ok"
                                  /\ r.fs.dirs = fs'.dirs \cup {sd}
                                  /\ {p \in DOMAIN r.fs.files : IsPrefix(sd, p)}
                                         = {push(sd, maxify(max_file_name', key).s)}
        /\ (last'.op = "clear" /\ last'.res.kind = "Ok") =>
               \A key \in AllKeys, value \in Values, sub \in Subs :
                   LET r == put_within(fs', max_file_name', key, value, sub)
                   IN  r.res.kind = "Io" /\ r.fs = fs' ]_vars

\* keys that contain a path separator: "a/a", "a/aa", "a/"
SepKeys ==
    {CharA \o <<Sep>> \o CharA, CharA \o <<Sep>> \o CharA \o CharA,
     CharA \o <<Sep>>}

\* C13: with no maximum set, a key containing a path separator makes put,
\* get and remove fail with an I/O error, and no put, get, exists or remove
\* with such a key reads, creates or deletes a file other than one directly
\* inside the bucket directory.
C13_SeparatorKeyFails ==
    max_file_name = None =>
    \A key \in SepKeys, value \in Values :
        LET p == put(fs, max_file_name, key, value)
            r == remove(fs, max_file_name, key)
            Direct(g) == \A q \in DOMAIN fs.files \cup DOMAIN g.files :
                             (q \in DOMAIN fs.files /\ q \in DOMAIN g.files
                                  /\ fs.files[q] = g.files[q]) \/ Len(q) = 1
        IN  /\ p.res.kind = "Io" /\ Direct(p.fs)
            /\ r.res.kind = "Io" /\ Direct(r.fs)
            /\ get(fs, max_file_name, key).kind = "Io"
            /\ ~exists(fs, max_file_name, key).flag

\* C15: whenever Store::new(path) or bucket(name) returns success the path
\* exists as a directory, and on an already existing directory either call
\* succeeds and changes nothing; in every reachable state, also when the
\* path or name is that of a stored key file.
C15_ConstructorPostcondition ==
    \A name \in AllKeys \ {<<>>} :
        LET d == push(dir, name)
            n == new(fs, d)
            b == bucket_in(fs, dir, name)
        IN  /\ n.res.kind = "Ok" => IsDir(n.fs, d)
            /\ b.res.kind = "Ok" => IsDir(b.fs, d)
            /\ IsDir(fs, d) => /\ n.res.kind = "Ok" /\ n.fs = fs
                               /\ b.res.kind = "Ok" /\ b.fs = fs

\* both threads have returned from a successful put on the same key
BothPutSameKey ==
    /\ \A p \in Procs :
           procs[p].pc = "done" /\ procs[p].op = "put" /\ procs[p].res = Ok
    /\ \A p, q \in Procs : procs[p].key = procs[q].key

\* C16: when two callers put(k, v1) and put(k, v2) concurrently, each put a
\* create/truncate step followed by write steps, then once both calls have
\* returned get(k) returns v1 or v2, in every interleaving.
C16_LastWriterWins ==
    BothPutSameKey =>
        LET g == fs_get_pair(fs, procs[1].path)
        IN  /\ g.kind = "Ok"
            /\ g.val \in {decode_pair(procs[p].bytes).v : p \in Procs}

\* both threads have returned from a put_within with distinct keys into the
\* same sub-namespace, which existed when neither call started
BothPutWithinNewSub ==
    /\ \A p \in Procs :
           /\ procs[p].pc = "done" /\ procs[p].op = "put_within"
           /\ ~path_exists(procs[p].old, push(dir, procs[p].sub))
    /\ procs[1].sub = procs[2].sub
    /\ procs[1].key # procs[2].key

\* both threads have returned from bucket(name) on the same name, which
\* existed when neither call started
BothBucketNew ==
    /\ \A p \in Procs :
           /\ procs[p].pc = "done" /\ procs[p].op = "bucket"
           /\ ~path_exists(procs[p].old, push(dir, procs[p].sub))
    /\ procs[1].sub = procs[2].sub

\* C20: two concurrent put_within calls with distinct keys into the same
\* sub-namespace that does not yet exist both succeed and both values are
\* retrievable afterwards; two concurrent bucket(name) calls on a bucket
\* that does not yet exist both succeed.
C20_ConcurrentFirstUse ==
    /\ BothPutWithinNewSub =>
           \A p \in Procs :
               /\ procs[p].res = Ok
               /\ fs_get_pair(fs, push(push(dir, procs[p].sub),
                                       maxify(max_file_name, procs[p].key).s))
                      = OkVal(decode_pair(procs[p].bytes).v)
    /\ BothBucketNew => \A p \in Procs : procs[p].res = Ok

\* the file a put or put_within in progress on thread p is aimed at
Target(p) ==
    LET name == maxify(max_file_name, procs[p].key).s
    IN  IF procs[p].op = "put_within"
        THEN Norm(push(push(dir, procs[p].sub), name))
        ELSE Norm(push(dir, name))

\* C12: put_within has no rollback: when the creation of bucket_dir/sub
\* fails, the I/O error of the creation is returned and no file is created
\* or truncated; when the creation succeeded and the write step fails, the
\* write error is returned, the sub directory remains and every other key
\* stored in it is unchanged.
C12_NoRollback ==
    (procs[1].pc = "done" /\ procs[1].op = "put_within") =>
        LET c == procs[1]
            sd == push(dir, c.sub)
        IN  /\ c.step = "create_dir" =>
                   /\ c.res.kind = "Io"
                   /\ fs = c.old
            /\ c.step \in {"create", "write"} =>
                   /\ c.res.kind = IF c.step = "write" THEN "Encode" ELSE "Io"
                   /\ sd \in fs.dirs
                   /\ \A q \in DOMAIN c.old.files :
                          q # Target(1) =>
                              /\ q \in DOMAIN fs.files
                              /\ fs.files[q] = c.old.files[q]

\* a put_within that created the sub directory failed in its write step
\* and left its own file cut short; a later one failed next to another key
C12_Witness ==
    /\ procs[1].pc = "done" /\ procs[1].op = "put_within"
    /\ procs[1].step = "write"
    /\ Target(1) \in DOMAIN fs.files
    /\ fs.files[Target(1)] # procs[1].bytes
    /\ \E q \in DOMAIN procs[1].old.files :
           q # Target(1) /\ IsPrefix(push(dir, procs[1].sub), q)

\* C17: in every state reached by completed operations every key file holds
\* the complete serialization of one value, get on a key for which exists
\* is true does not fail with a Decode error, and a put that failed left no
\* empty or partial file and did not destroy the value stored before.
C17_OneFileOneValue ==
    procs[1].pc \in {"idle", "done"} =>
        /\ \A q \in DOMAIN fs.files : \E v \in Values : fs.files[q] = encode(v)
        /\ \A key \in AllKeys \ {<<>>} :
               exists(fs, max_file_name, key).flag =>
                   get(fs, max_file_name, key).kind # "Decode"
        /\ (procs[1].pc = "done" /\ procs[1].res.kind # "Ok") =>
               IF Target(1) \in DOMAIN procs[1].old.files
               THEN /\ Target(1) \in DOMAIN fs.files
                    /\ fs.files[Target(1)] = procs[1].old.files[Target(1)]
               ELSE Target(1) \notin DOMAIN fs.files

====
